---- MODULE Spec2Model ----
(***************************************************************************)
(* A model of the nonlinear package: the NonLinear curves (Transform and   *)
(* InvTransform), the bisection helper bsInv, and the interpolation entry  *)
(* points NLerp, InvNLerp and RemapNL.                                     *)
(*                                                                         *)
(* float64 values are modelled as exact rationals over arbitrary-size      *)
(* integers, extended with NaN, +Inf and -Inf.  Addition, subtraction,    *)
(* multiplication and division are exact, without the rounding of float64; *)
(* a division by zero yields +-Inf or NaN and comparisons with NaN are     *)
(* false, as in IEEE 754; roots that are not exact are rounded down to     *)
(* RootBits fractional bits.                                               *)
(***************************************************************************)
EXTENDS Integers, Sequences, FiniteSets, TLC

(***************************************************************************)
(* Natural numbers of arbitrary size: little-endian digit sequences in     *)
(* base BASE without high zero digits; <<>> is zero.                       *)
(***************************************************************************)
BASE == 2^15

Hd(a) == IF a = <<>> THEN 0 ELSE Head(a)

Tl(a) == IF a = <<>> THEN <<>> ELSE Tail(a)

RECURSIVE BNorm(_)
BNorm(a) ==
  IF a = <<>> THEN <<>>
  ELSE IF a[Len(a)] = 0 THEN BNorm(SubSeq(a, 1, Len(a) - 1))
  ELSE a

RECURSIVE BFromInt(_)
BFromInt(n) == IF n = 0 THEN <<>> ELSE <<n % BASE>> \o BFromInt(n \div BASE)

RECURSIVE BAddC(_, _, _)
BAddC(a, b, c) ==
  IF a = <<>> /\ b = <<>> THEN (IF c = 0 THEN <<>> ELSE <<c>>)
  ELSE LET x == Hd(a) + Hd(b) + c
       IN <<x % BASE>> \o BAddC(Tl(a), Tl(b), x \div BASE)

BAdd(a, b) == BAddC(a, b, 0)

\* a - b - c for a >= b + c, not normalised
RECURSIVE BSubC(_, _, _)
BSubC(a, b, c) ==
  IF a = <<>> THEN <<>>
  ELSE LET x == Hd(a) - Hd(b) - c
       IN IF x < 0 THEN <<x + BASE>> \o BSubC(Tl(a), Tl(b), 1)
          ELSE <<x>> \o BSubC(Tl(a), Tl(b), 0)

BSub(a, b) == BNorm(BSubC(a, b, 0))

\* -1, 0, 1 as a < b, a = b, a > b
RECURSIVE BCmpTop(_, _, _)
BCmpTop(a, b, i) ==
  IF i = 0 THEN 0
  ELSE IF a[i] < b[i] THEN -1
  ELSE IF a[i] > b[i] THEN 1
  ELSE BCmpTop(a, b, i - 1)

BCmp(a, b) ==
  IF Len(a) < Len(b) THEN -1
  ELSE IF Len(a) > Len(b) THEN 1
  ELSE BCmpTop(a, b, Len(a))

RECURSIVE BMulDigit(_, _, _)
BMulDigit(a, d, c) ==
  IF a = <<>> THEN (IF c = 0 THEN <<>> ELSE <<c>>)
  ELSE LET x == Head(a) * d + c
       IN <<x % BASE>> \o BMulDigit(Tail(a), d, x \div BASE)

BShift(a) == IF a = <<>> THEN <<>> ELSE <<0>> \o a

RECURSIVE BMul(_, _)
BMul(a, b) ==
  IF a = <<>> \/ b = <<>> THEN <<>>
  ELSE IF Len(b) = 1 THEN BMulDigit(a, b[1], 0)
  ELSE IF Len(a) = 1 THEN BMulDigit(b, a[1], 0)
  ELSE BAdd(BMulDigit(a, Head(b), 0), BShift(BMul(a, Tail(b))))

BIsEven(a) == Hd(a) % 2 = 0

RECURSIVE BHalfRaw(_)
BHalfRaw(a) ==
  IF a = <<>> THEN <<>>
  ELSE <<(Head(a) \div 2) + (Hd(Tail(a)) % 2) * (BASE \div 2)>> \o BHalfRaw(Tail(a))

BHalf(a) == BNorm(BHalfRaw(a))

RECURSIVE BPow(_, _)
BPow(a, k) == IF k = 0 THEN <<1>> ELSE BMul(a, BPow(a, k - 1))

\* floor of the k-th root of n, by bisection on lo^k <= n < hi^k
RECURSIVE BRootBis(_, _, _, _)
BRootBis(n, k, lo, hi) ==
  IF BCmp(BAdd(lo, <<1>>), hi) >= 0 THEN lo
  ELSE LET mid == BHalf(BAdd(lo, hi))
       IN IF BCmp(BPow(mid, k), n) <= 0 THEN BRootBis(n, k, mid, hi)
          ELSE BRootBis(n, k, lo, mid)

\* BASE^j
RECURSIVE BUnit(_)
BUnit(j) == IF j = 0 THEN <<1>> ELSE <<0>> \o BUnit(j - 1)

BRoot(n, k) == BRootBis(n, k, <<>>, BUnit((Len(n) \div k) + 1))

(***************************************************************************)
(* Integers: [neg, mag], zero is never negative.                           *)
(***************************************************************************)
ZMake(neg, mag) == [neg |-> neg /\ mag # <<>>, mag |-> mag]

ZFromInt(n) == IF n < 0 THEN ZMake(TRUE, BFromInt(-n)) ELSE ZMake(FALSE, BFromInt(n))

ZNeg(x) == ZMake(~x.neg, x.mag)

ZAdd(x, y) ==
  IF x.neg = y.neg THEN ZMake(x.neg, BAdd(x.mag, y.mag))
  ELSE IF BCmp(x.mag, y.mag) >= 0 THEN ZMake(x.neg, BSub(x.mag, y.mag))
  ELSE ZMake(y.neg, BSub(y.mag, x.mag))

ZMul(x, y) == ZMake(x.neg # y.neg, BMul(x.mag, y.mag))

ZMulB(x, b) == ZMake(x.neg, BMul(x.mag, b))

\* -1, 0, 1
ZSign(x) == IF x.mag = <<>> THEN 0 ELSE IF x.neg THEN -1 ELSE 1

ZCmp(x, y) == ZSign(ZAdd(x, ZNeg(y)))

(***************************************************************************)
(* float64 values: a finite value n/d (d > 0, no common factor of two), or *)
(* one of NaN, +Inf, -Inf.  Finite values are compared by cross            *)
(* multiplication, so the representation need not be in lowest terms.      *)
(***************************************************************************)
\* the number of trailing zero bits of a digit x > 0
RECURSIVE Tz(_)
Tz(x) == IF x % 2 = 1 THEN 0 ELSE 1 + Tz(x \div 2)

Min(i, j) == IF i < j THEN i ELSE j

\* a \div 2^i for 2^i < BASE
RECURSIVE BShrRaw(_, _)
BShrRaw(a, i) ==
  IF a = <<>> THEN <<>>
  ELSE <<(Head(a) \div (2^i)) + (Hd(Tail(a)) % (2^i)) * (BASE \div (2^i))>> \o BShrRaw(Tail(a), i)

BShr(a, i) == BNorm(BShrRaw(a, i))

\* n/d with the common factors of two removed
RECURSIVE StripTwos(_, _)
StripTwos(n, d) ==
  IF n.mag = <<>> THEN [k |-> "num", n |-> n, d |-> <<1>>]
  ELSE IF Head(n.mag) = 0 /\ Head(d) = 0
       THEN StripTwos(ZMake(n.neg, Tail(n.mag)), Tail(d))
  ELSE IF Head(n.mag) % 2 = 1 \/ Head(d) % 2 = 1
       THEN [k |-> "num", n |-> n, d |-> d]
  ELSE LET i == IF Head(n.mag) = 0 THEN Tz(Head(d))
                ELSE IF Head(d) = 0 THEN Tz(Head(n.mag))
                ELSE Min(Tz(Head(n.mag)), Tz(Head(d)))
       IN StripTwos(ZMake(n.neg, BShr(n.mag, i)), BShr(d, i))

Fin(n, d) == StripTwos(n, d)

NaN == [k |-> "NaN", n |-> ZFromInt(0), d |-> <<1>>]

PInf == [k |-> "+Inf", n |-> ZFromInt(0), d |-> <<1>>]

NInf == [k |-> "-Inf", n |-> ZFromInt(0), d |-> <<1>>]

\* the value p/q for integers p and q > 0
Q(p, q) == Fin(ZFromInt(p), BFromInt(q))

IsNum(x) == x.k = "num"

IsNaN(x) == x.k = "NaN"

\* -1, 0, 1 for a value that is not NaN
FSign(x) == IF x.k = "+Inf" THEN 1 ELSE IF x.k = "-Inf" THEN -1 ELSE ZSign(x.n)

FNeg(x) ==
  IF x.k = "NaN" THEN NaN
  ELSE IF x.k = "+Inf" THEN NInf
  ELSE IF x.k = "-Inf" THEN PInf
  ELSE Fin(ZNeg(x.n), x.d)

FAdd(x, y) ==
  IF IsNaN(x) \/ IsNaN(y) THEN NaN
  ELSE IF IsNum(x) /\ IsNum(y)
       THEN IF x.d = y.d THEN Fin(ZAdd(x.n, y.n), x.d)
            ELSE Fin(ZAdd(ZMulB(x.n, y.d), ZMulB(y.n, x.d)), BMul(x.d, y.d))
  ELSE IF IsNum(y) THEN x
  ELSE IF IsNum(x) THEN y
  ELSE IF x.k = y.k THEN x
  ELSE NaN

FSub(x, y) == FAdd(x, FNeg(y))

FMul(x, y) ==
  IF IsNaN(x) \/ IsNaN(y) THEN NaN
  ELSE IF IsNum(x) /\ IsNum(y) THEN Fin(ZMul(x.n, y.n), BMul(x.d, y.d))
  ELSE IF FSign(x) * FSign(y) = 0 THEN NaN
  ELSE IF FSign(x) * FSign(y) > 0 THEN PInf
  ELSE NInf

FDiv(x, y) ==
  IF IsNaN(x) \/ IsNaN(y) THEN NaN
  ELSE IF IsNum(x) /\ IsNum(y)
       THEN IF ZSign(y.n) = 0
            THEN (IF ZSign(x.n) = 0 THEN NaN ELSE IF ZSign(x.n) > 0 THEN PInf ELSE NInf)
            ELSE Fin(ZMake(x.n.neg # y.n.neg, BMul(x.n.mag, y.d)), BMul(x.d, y.n.mag))
  ELSE IF ~IsNum(x) /\ ~IsNum(y) THEN NaN
  ELSE IF IsNum(x) THEN Q(0, 1)
  ELSE IF FSign(x) * (IF ZSign(y.n) < 0 THEN -1 ELSE 1) > 0 THEN PInf
  ELSE NInf

\* -1, 0, 1 for two values that are not NaN
FCmp(x, y) ==
  IF IsNum(x) /\ IsNum(y)
  THEN IF ZSign(x.n) # ZSign(y.n) THEN (IF ZSign(x.n) < ZSign(y.n) THEN -1 ELSE 1)
       ELSE IF x.d = y.d THEN ZSign(x.n) * BCmp(x.n.mag, y.n.mag)
       ELSE ZSign(x.n) * BCmp(BMul(x.n.mag, y.d), BMul(y.n.mag, x.d))
  ELSE IF x.k = y.k THEN 0
  ELSE IF x.k = "-Inf" \/ y.k = "+Inf" THEN -1
  ELSE 1

\* the comparisons of float64: every comparison with NaN is false
FLt(x, y) == ~IsNaN(x) /\ ~IsNaN(y) /\ FCmp(x, y) < 0

FGt(x, y) == FLt(y, x)

FLe(x, y) == ~IsNaN(x) /\ ~IsNaN(y) /\ FCmp(x, y) <= 0

FEq(x, y) == ~IsNaN(x) /\ ~IsNaN(y) /\ FCmp(x, y) = 0

\* roots that are not exact are rounded down to this many fractional bits
RootBits == 12

\* the largest r in lo..(hi - 1) with r^k * d <= n, by bisection
RECURSIVE BRootFloor(_, _, _, _, _)
BRootFloor(n, d, k, lo, hi) ==
  IF BCmp(BAdd(lo, <<1>>), hi) >= 0 THEN lo
  ELSE LET mid == BHalf(BAdd(lo, hi))
       IN IF BCmp(BMul(BPow(mid, k), d), n) <= 0 THEN BRootFloor(n, d, k, mid, hi)
          ELSE BRootFloor(n, d, k, lo, mid)

\* the k-th root of x: NaN for x < 0, exact when x is the k-th power of a
\* rational, and otherwise rounded down to a multiple of 2^-RootBits
FRoot(x, k) ==
  IF IsNaN(x) \/ FSign(x) < 0 THEN NaN
  ELSE IF ~IsNum(x) THEN x
  ELSE LET nd    == BMul(x.n.mag, BPow(x.d, k - 1))
           exact == BRoot(nd, k)
           scale == BPow(<<2>>, RootBits)
       IN IF BPow(exact, k) = nd THEN Fin(ZMake(FALSE, exact), x.d)
          ELSE Fin(ZMake(FALSE, BRootFloor(BMul(x.n.mag, BPow(scale, k)), x.d, k, <<>>,
                                           IF BCmp(x.n.mag, x.d) <= 0 THEN BAdd(scale, <<1>>)
                                           ELSE BMul(scale, BAdd(x.n.mag, <<1>>)))),
                   scale)

\* math.Sqrt
Sqrt(x) == FRoot(x, 2)

Zero == Q(0, 1)

One == Q(1, 1)


F(p) == Q(p, 1)

(***************************************************************************)
(* The curves.  A curve value is a record with its type in `kind`; an      *)
(* NLCompound holds the slice header Fs and an NLStopped the slice header  *)
(* Stops, each the address in `m` (the memory) of the backing array the    *)
(* constructor was given.  Transform and InvTransform are the interface    *)
(* methods, dispatched on the dynamic type.                                *)
(***************************************************************************)
NLLinearTransform(t) == t

NLLinearInvTransform(v) == v

NLSquareTransform(t) == FMul(t, t)

NLSquareInvTransform(v) == Sqrt(v)

NLCubeTransform(t) == FMul(FMul(t, t), t)

\* math.Pow(v, 1/3.0)
NLCubeInvTransform(v) == FRoot(v, 3)

NLCircle1Transform(t) ==
  IF FLt(t, One) THEN FSub(One, Sqrt(FSub(One, FMul(t, t)))) ELSE One

NLCircle1InvTransform(v) ==
  IF FLt(v, One) THEN Sqrt(FSub(One, FMul(FSub(v, One), FSub(v, One)))) ELSE One

NLP3Transform(t) == FMul(FMul(t, t), FSub(F(3), FMul(F(2), t)))

NLP5Transform(t) ==
  FMul(FMul(FMul(t, t), t), FAdd(FMul(t, FSub(FMul(t, F(6)), F(15))), F(10)))

\* the loop of NLStopped.Transform: the first i from i on with Stops[i][0] > t, or
\* len(Stops); stops[i + 1] is the source's nl.Stops[i]
RECURSIVE StopScan(_, _, _)
StopScan(stops, t, i) ==
  IF i < Len(stops)
  THEN IF FGt(stops[i + 1][1], t) THEN i ELSE StopScan(stops, t, i + 1)
  ELSE i

\* the segment's ends (t0, v0) and (t1, v1) for the loop's final i
StopT0V0(stops, i) ==
  IF i = Len(stops) THEN stops[Len(stops)]
  ELSE IF i > 1 THEN stops[i]
  ELSE <<Zero, Zero>>

StopT1V1(stops, i) == IF i < Len(stops) THEN stops[i + 1] ELSE <<One, One>>

NLStoppedTransform(stops, t) ==
  LET i  == StopScan(stops, t, 0)
      p0 == StopT0V0(stops, i)
      p1 == StopT1V1(stops, i)
      dt == FSub(p1[1], p0[1])
      u  == FDiv(FSub(t, p0[1]), dt)
  IN FAdd(FMul(FSub(One, u), p0[2]), FMul(u, p1[2]))

RECURSIVE Transform(_, _, _)
RECURSIVE NLCompoundTransform(_, _, _)
NLCompoundTransform(fs, t, m) ==
  IF fs = <<>> THEN t
  ELSE NLCompoundTransform(Tail(fs), Transform(Head(fs), t, m), m)

NLOmtTransform(f, t, m) ==
  LET u == FSub(One, t)
  IN IF FGt(u, Zero) THEN FSub(One, Transform(f, u, m)) ELSE One

Transform(c, t, m) ==
  CASE c.kind = "Linear"   -> NLLinearTransform(t)
    [] c.kind = "Square"   -> NLSquareTransform(t)
    [] c.kind = "Cube"     -> NLCubeTransform(t)
    [] c.kind = "Circle1"  -> NLCircle1Transform(t)
    [] c.kind = "P3"       -> NLP3Transform(t)
    [] c.kind = "P5"       -> NLP5Transform(t)
    [] c.kind = "Compound" -> NLCompoundTransform(m[c.Fs], t, m)
    [] c.kind = "Omt"      -> NLOmtTransform(c.F, t, m)
    [] c.kind = "Stopped"  -> NLStoppedTransform(m[c.Stops], t)

\* the iteration count, first guess and first step of bsInv
BsIters == 16

BsT0 == Q(1, 2)

BsS0 == Q(1, 4)

\* bsInv's step with the comparison turned round
bsInvStepReversed(t, s, v, f, m) ==
  IF FLt(Transform(f, t, m), v) THEN FSub(t, s) ELSE FAdd(t, s)

\* one iteration of bsInv's loop: the new t
bsInvStep(t, s, v, f, m) ==
  IF FGt(Transform(f, t, m), v) THEN FSub(t, s) ELSE FAdd(t, s)

\* the loop of bsInv with n iterations left
RECURSIVE bsInvLoop(_, _, _, _, _, _)
bsInvLoop(n, t, s, v, f, m) ==
  IF n > 0
  THEN IF FGt(Transform(f, t, m), v)
       THEN bsInvLoop(n - 1, FSub(t, s), FDiv(s, F(2)), v, f, m)
       ELSE bsInvLoop(n - 1, FAdd(t, s), FDiv(s, F(2)), v, f, m)
  ELSE t

bsInv(v, f, m) == bsInvLoop(BsIters, BsT0, BsS0, v, f, m)

\* the curves whose InvTransform is bsInv(v, nl)
UsesBsInv(c) == c.kind \in {"P3", "P5", "Stopped"}

RECURSIVE InvTransform(_, _, _)
RECURSIVE NLCompoundInvTransform(_, _, _)
\* the inverse that walks the children in list order, as Transform does
RECURSIVE NLCompoundInvTransformInOrder(_, _, _)
NLCompoundInvTransformInOrder(fs, v, m) ==
  IF fs = <<>> THEN v
  ELSE NLCompoundInvTransformInOrder(Tail(fs), InvTransform(Head(fs), v, m), m)

NLCompoundInvTransform(fs, v, m) ==
  IF fs = <<>> THEN v
  ELSE NLCompoundInvTransform(SubSeq(fs, 1, Len(fs) - 1), InvTransform(fs[Len(fs)], v, m), m)

NLOmtInvTransform(f, v, m) ==
  LET w == FSub(One, v)
  IN IF FGt(w, Zero) THEN FSub(One, InvTransform(f, FSub(One, w), m)) ELSE One

InvTransform(c, v, m) ==
  CASE c.kind = "Linear"   -> NLLinearInvTransform(v)
    [] c.kind = "Square"   -> NLSquareInvTransform(v)
    [] c.kind = "Cube"     -> NLCubeInvTransform(v)
    [] c.kind = "Circle1"  -> NLCircle1InvTransform(v)
    [] c.kind = "Compound" -> NLCompoundInvTransform(m[c.Fs], v, m)
    [] c.kind = "Omt"      -> NLOmtInvTransform(c.F, v, m)
    [] UsesBsInv(c)        -> bsInv(v, c, m)

(***************************************************************************)
(* The interpolation entry points.  NLerp also reports how many times it   *)
(* called f.Transform.                                                     *)
(***************************************************************************)
\* NLerp without the two clamping returns
NLerpUnclamped(t, start, end, f, m) ==
  LET u == Transform(f, t, m)
  IN [val |-> FAdd(FMul(FSub(One, u), start), FMul(u, end)), calls |-> 1]

NLerp(t, start, end, f, m) ==
  IF FLt(t, Zero) THEN [val |-> start, calls |-> 0]
  ELSE IF FGt(t, One) THEN [val |-> end, calls |-> 0]
  ELSE LET u == Transform(f, t, m)
       IN [val |-> FAdd(FMul(FSub(One, u), start), FMul(u, end)), calls |-> 1]

InvNLerp(v, start, end, f, m) ==
  LET t == FDiv(FSub(v, start), FSub(end, start))
  IN IF FLt(t, Zero) THEN Zero
     ELSE IF FGt(t, One) THEN One
     ELSE InvTransform(f, t, m)

\* RemapNL with the two curves exchanged
RemapNLSwapped(v, istart, iend, ostart, oend, fi, fo, m) ==
  NLerp(InvNLerp(v, istart, iend, fo, m), ostart, oend, fi, m).val

RemapNL(v, istart, iend, ostart, oend, fi, fo, m) ==
  NLerp(InvNLerp(v, istart, iend, fi, m), ostart, oend, fo, m).val


(***************************************************************************)
(* The constructors.  NewNLCompound and NewNLStopped store the slice they  *)
(* are given: the curve and the caller share one backing array.            *)
(***************************************************************************)
Leaf(kind) == [kind |-> kind]

NewNLOmt(f) == [kind |-> "Omt", F |-> f]

NewNLCompound(fs) == [kind |-> "Compound", Fs |-> fs]

NewNLStopped(stops) == [kind |-> "Stopped", Stops |-> stops]

(***************************************************************************)
(* The bounded inputs of the calls.                                        *)
(***************************************************************************)
GridDen == 10

StopDen == 4

MaxFs == 2

\* the arguments t and v of Transform and InvTransform: [0,1] in steps of 1/GridDen
Grid == {Q(k, GridDen) : k \in 0..GridDen}

\* the argument t of NLerp: the grid and points below 0 and above 1
TArgs == Grid \cup {Q(-1, 2), Q(-1, GridDen), Q(GridDen + 1, GridDen), Q(3, 2)}

\* the endpoints start and end
Ends == {F(-1), One}

\* the argument v of InvNLerp: halves from -2 to 2
VArgs == {Q(k - 4, 2) : k \in 0..8}

\* the argument v of RemapNL
RemapArgs == {Q(k, 4) : k \in 0..4}

\* the input and output ranges of RemapNL
Ranges == {<<Zero, One>>, <<One, F(-1)>>}

LeafKinds == {"Linear", "Square", "Cube", "Circle1", "P3", "P5"}

ChildKinds == {"Linear", "Square", "Circle1"}

InKinds == {"Linear", "Square"}

\* the child lists a caller passes to NewNLCompound
FsLists ==
  {<<>> \o fs : fs \in UNION {[1..n -> {Leaf(k) : k \in ChildKinds}] : n \in 1..MaxFs}}

\* the stops a caller passes to NewNLStopped: one or more pairs (t, v) of
\* multiples of 1/StopDen inside (0,1), strictly ascending in both t and v
StopIdx == 1..(StopDen - 1)

StopLists ==
  {<<>> \o [j \in 1..Len(ix) |-> <<Q(ix[j][1], StopDen), Q(ix[j][2], StopDen)>>] :
     ix \in {jx \in UNION {[1..n -> StopIdx \X StopIdx] : n \in StopIdx} :
               \A j \in 1..(Len(jx) - 1) :
                  jx[j][1] < jx[j + 1][1] /\ jx[j][2] < jx[j + 1][2]}}

(***************************************************************************)
(* The state: a caller builds one curve and calls the package on it.       *)
(***************************************************************************)
VARIABLES
  mem,    \* the caller's slices: mem["fs"] and mem["stops"]
  curve,  \* the curve the caller built, NoCurve before
  pc,     \* "new", "idle", "bsInv" (a top-level bsInv is running), "done"
  call,   \* the call in progress or just returned
  bs      \* the locals n, t, s of the running bsInv, and its argument v

vars == <<mem, curve, pc, call, bs>>

NoVal == [k |-> "none", n |-> ZFromInt(0), d |-> <<1>>]

NoCurve == [kind |-> "none"]

NoCall == [op |-> "none", t |-> NoVal, a |-> NoVal, b |-> NoVal, oa |-> NoVal,
           ob |-> NoVal, fi |-> NoCurve, res |-> NoVal, calls |-> 0, rt |-> NoVal]

NoBs == [n |-> 0, t |-> NoVal, s |-> NoVal, v |-> NoVal, evals |-> 0]

Init ==
  /\ mem = [x \in {"fs", "stops"} |-> <<>>]
  /\ curve = NoCurve
  /\ pc = "new"
  /\ call = NoCall
  /\ bs = NoBs

\* &NLLinear{}, &NLSquare{}, ...
NewLeaf ==
  /\ pc = "new"
  /\ \E kind \in LeafKinds : curve' = Leaf(kind)
  /\ pc' = "idle"
  /\ UNCHANGED <<mem, call, bs>>

NewOmt ==
  /\ pc = "new"
  /\ \E kind \in LeafKinds : curve' = NewNLOmt(Leaf(kind))
  /\ pc' = "idle"
  /\ UNCHANGED <<mem, call, bs>>

NewCompound ==
  /\ pc = "new"
  /\ \E fs \in FsLists : mem' = [mem EXCEPT !["fs"] = fs]
  /\ curve' = NewNLCompound("fs")
  /\ pc' = "idle"
  /\ UNCHANGED <<call, bs>>

NewStopped ==
  /\ pc = "new"
  /\ \E stops \in StopLists : mem' = [mem EXCEPT !["stops"] = stops]
  /\ curve' = NewNLStopped("stops")
  /\ pc' = "idle"
  /\ UNCHANGED <<call, bs>>

\* the caller assigns fs[i] = c in the slice it passed to NewNLCompound
CallerWriteFs ==
  /\ pc = "idle"
  /\ curve.kind = "Compound"
  /\ \E i \in 1..Len(mem["fs"]), kind \in ChildKinds :
        /\ mem["fs"][i] # Leaf(kind)
        /\ mem' = [mem EXCEPT !["fs"][i] = Leaf(kind)]
  /\ UNCHANGED <<curve, pc, call, bs>>

\* the caller assigns stops[i] = p in the slice it passed to NewNLStopped,
\* leaving the stops well formed
CallerWriteStops ==
  /\ pc = "idle"
  /\ curve.kind = "Stopped"
  /\ \E stops \in StopLists :
        /\ Len(stops) = Len(mem["stops"])
        /\ Cardinality({i \in 1..Len(stops) : stops[i] # mem["stops"][i]}) = 1
        /\ mem' = [mem EXCEPT !["stops"] = stops]
  /\ UNCHANGED <<curve, pc, call, bs>>

\* a Transform that consumes the slice it walks (nl.Fs = nl.Fs[1:])
CallTransformConsuming ==
  /\ pc = "idle"
  /\ \E t \in Grid :
        call' = [NoCall EXCEPT !.op = "Transform", !.t = t,
                               !.res = Transform(curve, t, mem)]
  /\ mem' = [mem EXCEPT !["fs"] = IF @ = <<>> THEN @ ELSE Tail(@)]
  /\ pc' = "done"
  /\ UNCHANGED <<curve, bs>>

CallTransform ==
  /\ pc = "idle"
  /\ \E t \in Grid :
        call' = [NoCall EXCEPT !.op = "Transform", !.t = t,
                               !.res = Transform(curve, t, mem)]
  /\ pc' = "done"
  /\ UNCHANGED <<mem, curve, bs>>

\* curve.InvTransform(v): a curve whose InvTransform is bsInv enters bsInv's loop
StartInvTransform(v, rt) ==
  IF UsesBsInv(curve)
  THEN /\ call' = [NoCall EXCEPT !.op = "InvTransform", !.t = v, !.rt = rt]
       /\ bs' = [n |-> BsIters, t |-> BsT0, s |-> BsS0, v |-> v, evals |-> 0]
       /\ pc' = "bsInv"
  ELSE /\ call' = [NoCall EXCEPT !.op = "InvTransform", !.t = v, !.rt = rt,
                                 !.res = InvTransform(curve, v, mem)]
       /\ bs' = bs
       /\ pc' = "done"

CallInvTransform ==
  /\ pc = "idle"
  /\ \E v \in Grid : StartInvTransform(v, NoVal)
  /\ UNCHANGED <<mem, curve>>

\* the caller passes the result of curve.Transform(t) to curve.InvTransform
CallInvOfResult ==
  /\ pc = "done"
  /\ call.op = "Transform"
  /\ StartInvTransform(call.res, call.t)
  /\ UNCHANGED <<mem, curve>>

bsInvIter ==
  /\ pc = "bsInv"
  /\ bs.n > 0
  /\ bs' = [bs EXCEPT !.t = bsInvStep(bs.t, bs.s, bs.v, curve, mem),
                      !.s = FDiv(bs.s, F(2)),
                      !.n = bs.n - 1,
                      !.evals = bs.evals + 1]
  /\ UNCHANGED <<mem, curve, pc, call>>

bsInvReturn ==
  /\ pc = "bsInv"
  /\ ~(bs.n > 0)
  /\ call' = [call EXCEPT !.res = bs.t, !.calls = bs.evals]
  /\ bs' = NoBs
  /\ pc' = "done"
  /\ UNCHANGED <<mem, curve>>

CallNLerp ==
  /\ pc = "idle"
  /\ \E t \in TArgs, start \in Ends, end \in Ends :
        LET r == NLerp(t, start, end, curve, mem)
        IN call' = [NoCall EXCEPT !.op = "NLerp", !.t = t, !.a = start, !.b = end,
                                  !.res = r.val, !.calls = r.calls]
  /\ pc' = "done"
  /\ UNCHANGED <<mem, curve, bs>>

CallInvNLerp ==
  /\ pc = "idle"
  /\ \E v \in VArgs, start \in Ends, end \in Ends :
        call' = [NoCall EXCEPT !.op = "InvNLerp", !.t = v, !.a = start, !.b = end,
                               !.res = InvNLerp(v, start, end, curve, mem)]
  /\ pc' = "done"
  /\ UNCHANGED <<mem, curve, bs>>

\* RemapNL from a range of a stateless curve fi into a range of the built curve
CallRemapNL ==
  /\ pc = "idle"
  /\ \E v \in RemapArgs, i \in Ranges, o \in Ranges, kind \in InKinds :
        call' = [NoCall EXCEPT !.op = "RemapNL", !.t = v, !.a = i[1], !.b = i[2],
                               !.oa = o[1], !.ob = o[2], !.fi = Leaf(kind),
                               !.res = RemapNL(v, i[1], i[2], o[1], o[2], Leaf(kind), curve, mem)]
  /\ pc' = "done"
  /\ UNCHANGED <<mem, curve, bs>>

\* the caller is done with the result
Return ==
  /\ pc = "done"
  /\ call' = NoCall
  /\ pc' = "idle"
  /\ UNCHANGED <<mem, curve, bs>>

Next ==
  \/ NewLeaf
  \/ NewOmt
  \/ NewCompound
  \/ NewStopped
  \/ CallerWriteFs
  \/ CallerWriteStops
  \/ CallTransform
  \/ CallInvTransform
  \/ CallInvOfResult
  \/ bsInvIter
  \/ bsInvReturn
  \/ CallNLerp
  \/ CallInvNLerp
  \/ CallRemapNL
  \/ Return

Spec == Init /\ [][Next]_vars



(***************************************************************************)
(* The properties.                                                         *)
(***************************************************************************)
\* the call op has returned and its result is in call.res
Called(op) == pc = "done" /\ call.op = op

FAbs(x) == IF FSign(x) < 0 THEN FNeg(x) ELSE x

\* the caller has passed the result of Transform(call.rt) to InvTransform
IsRoundTrip == Called("InvTransform") /\ call.rt # NoVal

\* C1: for NLOmt(f) with an exactly invertible child f (Linear, or Square on
\* values with exact roots), InvTransform(Transform(t)) = t for every t in [0,1]
OmtRoundTrip ==
  (IsRoundTrip /\ curve.kind = "Omt" /\ curve.F.kind \in {"Linear", "Square"})
     => FEq(call.res, call.rt)

\* the stops with the implicit anchors (0,0) and (1,1)
Anchored(stops) == <<<<Zero, Zero>>>> \o stops \o <<<<One, One>>>>

\* v_i + (t - t_i)/(t_{i+1} - t_i) * (v_{i+1} - v_i)
Interpolate(p0, p1, t) ==
  FAdd(p0[2], FMul(FDiv(FSub(t, p0[1]), FSub(p1[1], p0[1])), FSub(p1[2], p0[2])))

\* C2: NLStopped.Transform(t) is the linear interpolation between the two
\* anchored stops around t; so Transform(t_i) = v_i at every stop
StoppedInterpolates ==
  (Called("Transform") /\ curve.kind = "Stopped")
     => LET a == Anchored(mem["stops"])
        IN \A i \in 1..(Len(a) - 1) :
              (FLe(a[i][1], call.t) /\ FLe(call.t, a[i + 1][1]))
                 => FEq(call.res, Interpolate(a[i], a[i + 1], call.t))

\* C3: for a < b and every curve, InvNLerp(a, a, b, c) = 0 and
\* InvNLerp(b, a, b, c) = 1 exactly
InvNLerpEndpoints ==
  (Called("InvNLerp") /\ FLt(call.a, call.b))
     => /\ FEq(call.t, call.a) => FEq(call.res, Zero)
        /\ FEq(call.t, call.b) => FEq(call.res, One)

TransformMonotonic ==
  Called("Transform")
     => \A t2 \in Grid :
           FLt(call.t, t2) => FLe(call.res, Transform(curve, t2, mem))


\* the children applied one after another in list order, first to last
RECURSIVE InListOrder(_, _, _, _)
InListOrder(fs, i, t, m) ==
  IF i > Len(fs) THEN t ELSE InListOrder(fs, i + 1, Transform(fs[i], t, m), m)

\* the children's inverses applied one after another, last to first
RECURSIVE InReverseOrder(_, _, _, _)
InReverseOrder(fs, i, v, m) ==
  IF i < 1 THEN v ELSE InReverseOrder(fs, i - 1, InvTransform(fs[i], v, m), m)

\* the value that enters child i when the compound transforms t
StageInput(fs, i, t, m) == InListOrder(SubSeq(fs, 1, i - 1), 1, t, m)

\* every child inverts its own stage of the transformation of t exactly
StagesInvertExactly(fs, t, m) ==
  \A i \in 1..Len(fs) :
     LET x == StageInput(fs, i, t, m)
     IN FEq(InvTransform(fs[i], Transform(fs[i], x, m), m), x)

InvNLerpDegenerate ==
  (Called("InvNLerp") /\ FEq(call.a, call.b))
     => (FEq(call.res, Zero) \/ FEq(call.res, One))

\* C8: RemapNL(v, istart, iend, ostart, oend, fi, fo) is
\* NLerp(InvNLerp(v, istart, iend, fi), ostart, oend, fo), and
\* RemapNL(v, 0, 1, 0, 1, Linear, Linear) = v for v in [0,1]
RemapComposes ==
  Called("RemapNL")
     => /\ call.res = NLerp(InvNLerp(call.t, call.a, call.b, call.fi, mem),
                            call.oa, call.ob, curve, mem).val
        /\ (/\ call.fi = Leaf("Linear") /\ curve = Leaf("Linear")
            /\ call.a = Zero /\ call.b = One /\ call.oa = Zero /\ call.ob = One)
             => FEq(call.res, call.t)

\* C8 witness: RemapNL(1/4, 0, 1, 0, 1, Linear, Linear) has returned 1/4
RemapComposesWitness ==
  /\ Called("RemapNL")
  /\ call.fi = Leaf("Linear") /\ curve = Leaf("Linear")
  /\ call.a = Zero /\ call.b = One /\ call.oa = Zero /\ call.ob = One
  /\ FEq(call.t, Q(1, 4))
  /\ FEq(call.res, Q(1, 4))


\* C9 as stated: once the curve is constructed no later step changes the
\* value of its Transform at any input
CurveImmutable ==
  [][pc # "new" => \A t \in Grid :
                      Transform(curve', t, mem') = Transform(curve, t, mem)]_vars

\* a step of the package: a call, an iteration of bsInv, a return
PackageStep == pc' # pc \/ pc = "bsInv"

\* C9 amended: no call of Transform, InvTransform, NLerp, InvNLerp or RemapNL
\* changes the curve or the slice it reads; the curve changes only when the
\* caller writes to the slice it passed to the constructor
CallsLeaveCurve ==
  [][(pc # "new" /\ PackageStep) => (curve' = curve /\ mem' = mem)]_vars

\* C9 witness: a whole bsInv, 16 calls of Transform, has run on a stopped
\* curve whose stops are still the caller's slice
CallsLeaveCurveWitness ==
  /\ Called("InvTransform")
  /\ curve.kind = "Stopped"
  /\ Len(mem[curve.Stops]) > 1
  /\ call.calls = BsIters

\* C10: bsInv starts at t = 1/2 with step 1/4, halves the step after each of
\* exactly 16 evaluations of Transform and keeps the target within two steps
\* of t; for P3 and P5 and v = Transform(t*), t* in [0,1], the result is
\* within 2^-16 of t*
BisectionPrecision ==
  /\ pc = "bsInv"
       => /\ bs.n + bs.evals = BsIters
          /\ bs.s = Q(1, 2 ^ (bs.evals + 2))
          /\ bs.evals = 0 => bs.t = Q(1, 2)
          /\ (call.rt # NoVal /\ curve.kind \in {"P3", "P5"})
               => FLe(FAbs(FSub(bs.t, call.rt)), FMul(F(2), bs.s))
  /\ (Called("InvTransform") /\ UsesBsInv(curve))
       => call.calls = 16
  /\ (IsRoundTrip /\ curve.kind \in {"P3", "P5"})
       => FLe(FAbs(FSub(call.res, call.rt)), Q(1, 2 ^ 16))

\* C10 witness: bsInv has returned for P5 and the target Transform(3/10),
\* after 16 evaluations, a t that is not 3/10
BisectionPrecisionWitness ==
  /\ IsRoundTrip
  /\ curve.kind = "P5"
  /\ FEq(call.rt, Q(3, 10))
  /\ call.calls = 16
  /\ ~FEq(call.res, call.rt)

====
